---- MODULE Spec2Model ----
(***************************************************************************)
(* A model of post-guide.py, the Hexo post workflow script.                *)
(*                                                                         *)
(* Text is a sequence of one-character strings, so that the regular        *)
(* expressions of the script are modelled by what they match, character    *)
(* by character.                                                           *)
(***************************************************************************)
EXTENDS Integers, Sequences, FiniteSets, TLC

VARIABLES
    \* title2filename
    title,              \* the argument of the call
    filename,           \* the value returned, NoValue when it raised
    warnings,           \* number of "Warning:" lines printed by the call
    raised,             \* the exception the last call raised, NoError if none
    first,              \* the value returned by the call before the last one
    \* the document transforms
    family,             \* how the document was built: "chars", "lines" or "items"
    blocks,             \* the pieces the document was built from, in order
    document,           \* the document handed to the transform
    op,                 \* the transform or command line flag run, NoOp before
    result,             \* what the transform returned
    process_calls,      \* how many times process_func was called
    \* the blog on disk and the run of the script
    hexo_root,          \* source/_posts exists in the working directory
    made_dirs,          \* _draft, _hidden and _archived exist
    draft_dir,          \* the entry of _draft under each name
    posts,              \* under each name, source/_posts/<name>.md and <name>/
    scaffold,           \* what "hexo new post" writes on this site
    pending,            \* titles new_drafts has still to go through
    commands,           \* the commands os.system was given in this run
    port,               \* what connect_ex found on localhost:4000 in this run
    finalize_runs,      \* runs of finalize_all_drafts since a draft changed
    pc                  \* position of the driver of the current specification

NoValue == <<"<none>">>
NoError == "NoError"
NoOp == "NoOp"

(***************************************************************************)
(* Character classes of Python's re module, over the characters used here. *)
(***************************************************************************)
\* \s
IsSpace(c) == c \in {" ", "\t", "\n"}

UpperLetters ==
    {"A", "B", "C", "D", "E", "F", "G", "H", "I", "J", "K", "L", "M", "N",
     "O", "P", "Q", "R", "S", "T", "U", "V", "W", "X", "Y", "Z"}

LowerLetters ==
    {"a", "b", "c", "d", "e", "f", "g", "h", "i", "j", "k", "l", "m", "n",
     "o", "p", "q", "r", "s", "t", "u", "v", "w", "x", "y", "z"}

\* \w with re.UNICODE: letters of any script, digits and the underscore
IsWord(c) ==
    \/ c \in UpperLetters \/ c \in LowerLetters
    \/ c \in {"0", "1", "2", "3", "4", "5", "6", "7", "8", "9"}
    \/ c = "_"

\* str.lower() on one character
LowerChar(c) ==
    CASE c = "A" -> "a"
      [] c = "B" -> "b"
      [] c = "C" -> "c"
      [] c = "D" -> "d"
      [] c = "E" -> "e"
      [] c = "F" -> "f"
      [] c = "G" -> "g"
      [] c = "H" -> "h"
      [] c = "I" -> "i"
      [] c = "J" -> "j"
      [] c = "K" -> "k"
      [] c = "L" -> "l"
      [] c = "M" -> "m"
      [] c = "N" -> "n"
      [] c = "O" -> "o"
      [] c = "P" -> "p"
      [] c = "Q" -> "q"
      [] c = "R" -> "r"
      [] c = "S" -> "s"
      [] c = "T" -> "t"
      [] c = "U" -> "u"
      [] c = "V" -> "v"
      [] c = "W" -> "w"
      [] c = "X" -> "x"
      [] c = "Y" -> "y"
      [] c = "Z" -> "z"
      [] OTHER -> c

\* c * n
Rep(c, n) == [i \in 1..n |-> c]

\* the least element of a non-empty set of integers
Min(S) == CHOOSE x \in S : \A y \in S : x <= y

\* the greatest element of a non-empty set of integers
Max(S) == CHOOSE x \in S : \A y \in S : x >= y

\* s[i:i+len(lit)] == lit, positions counted from 1
StartsWithAt(s, i, lit) ==
    /\ i >= 1
    /\ i + Len(lit) - 1 <= Len(s)
    /\ SubSeq(s, i, i + Len(lit) - 1) = lit

\* the first position >= from where lit occurs in s, 0 when there is none
Find(s, lit, from) ==
    LET found == {j \in from..(Len(s) - Len(lit) + 1) : StartsWithAt(s, j, lit)}
    IN  IF found = {} THEN 0 ELSE Min(found)

\* the first position >= from whose character is in chars, 0 when there is none
FindChar(s, chars, from) ==
    LET found == {j \in from..Len(s) : s[j] \in chars}
    IN  IF found = {} THEN 0 ELSE Min(found)

\* ''.join(parts)
RECURSIVE Join(_)
Join(parts) == IF parts = <<>> THEN <<>> ELSE Head(parts) \o Join(Tail(parts))

(***************************************************************************)
(* title2filename                                                          *)
(***************************************************************************)
\* [\s\-_]
IsSeparator(c) == IsSpace(c) \/ c = "-" \/ c = "_"

\* re.sub(r'[\s\-_]+', '-', s): every maximal run of separators becomes one
\* hyphen, that is, a separator is kept (as a hyphen) only when it starts a run
CollapseSeparators(s) ==
    LET marked == [i \in 1..Len(s) |->
                     [c    |-> IF IsSeparator(s[i]) THEN "-" ELSE s[i],
                      keep |-> ~(IsSeparator(s[i]) /\ i > 1 /\ IsSeparator(s[i - 1]))]]
        kept == SelectSeq(marked, LAMBDA m : m.keep)
    IN  [i \in 1..Len(kept) |-> kept[i].c]

\* re.sub(r'[^\w\-]', '', s, flags=re.UNICODE)
DeleteSpecial(s) == SelectSeq(s, LAMBDA c : IsWord(c) \/ c = "-")

\* str.lower()
Lower(s) == [i \in 1..Len(s) |-> LowerChar(s[i])]

\* the three rewriting steps of title2filename, before the length check
CleanTitle(t) == Lower(DeleteSpecial(CollapseSeparators(t)))

WarnLength == 64
MaxLength == 255

\* the length check with >= for >
LengthCheckOffByOne(name) ==
    IF Len(name) >= MaxLength
    THEN [filename |-> NoValue, warnings |-> 0, raised |-> "ValueError"]
    ELSE IF Len(name) >= WarnLength
         THEN [filename |-> name, warnings |-> 1, raised |-> NoError]
         ELSE [filename |-> name, warnings |-> 0, raised |-> NoError]

\* The length check of title2filename: what is returned, how many warnings
\* are printed, and what is raised.
LengthCheck(name) ==
    IF Len(name) > MaxLength
    THEN [filename |-> NoValue, warnings |-> 0, raised |-> "ValueError"]
    ELSE IF Len(name) > WarnLength
         THEN [filename |-> name, warnings |-> 1, raised |-> NoError]
         ELSE [filename |-> name, warnings |-> 0, raised |-> NoError]

title2filename(t) == LengthCheck(CleanTitle(t))

(***************************************************************************)
(* The code spans of avoid_process_code_blocks: the matches of             *)
(*   (~~~[\s\S]*?~~~|```[\s\S]*?```|`[^`]*`)                                *)
(* or, with avoid_inline_code false, of (~~~[\s\S]*?~~~|```[\s\S]*?```).   *)
(* A span is [start, end) with positions counted from 1; end 0 is no match.*)
(***************************************************************************)
Tildes == <<"~", "~", "~">>
\* The character ` (U+0060), which a TLA+ string cannot hold.
Backtick == "<backtick>"

Backticks == <<Backtick, Backtick, Backtick>>

\* fence [\s\S]*? fence at i: the lazy body ends at the first later fence
FenceEnd(s, i, fence) ==
    IF StartsWithAt(s, i, fence)
    THEN LET j == Find(s, fence, i + Len(fence))
         IN  IF j = 0 THEN 0 ELSE j + Len(fence)
    ELSE 0

\* `[^`]*` at i: the body ends at the next backtick
InlineEnd(s, i) ==
    IF StartsWithAt(s, i, <<Backtick>>)
    THEN LET j == FindChar(s, {Backtick}, i + 1)
         IN  IF j = 0 THEN 0 ELSE j + 1
    ELSE 0

\* the alternation at i: the first alternative that matches wins
CodeEnd(s, i, avoid_inline_code) ==
    IF FenceEnd(s, i, Tildes) # 0 THEN FenceEnd(s, i, Tildes)
    ELSE IF FenceEnd(s, i, Backticks) # 0 THEN FenceEnd(s, i, Backticks)
    ELSE IF avoid_inline_code THEN InlineEnd(s, i)
    ELSE 0

\* last_end one short of the end of the span
NextLastEndOffByOne(start, end) == end - 1

\* last_end = end, after the code span [start, end)
NextLastEnd(start, end) == end

\* The loop of avoid_process_code_blocks over finditer, and the tail after it:
\* the parts in order, each tagged as code (copied) or not (to be processed).
\* last_end is the position of the first character not yet consumed.
\* a loop that hands process_func every gap, the empty ones too: the two
\* tests start > last_end and last_end < len(content) left out
RECURSIVE SplitFromEveryGap(_, _, _, _)
SplitFromEveryGap(content, last_end, avoid_inline_code, parts) ==
    LET starts == {i \in last_end..Len(content) :
                       CodeEnd(content, i, avoid_inline_code) # 0}
    IN  IF starts = {}
        THEN Append(parts, [code |-> FALSE,
                            text |-> SubSeq(content, last_end, Len(content))])
        ELSE LET start == Min(starts)
                 end == CodeEnd(content, start, avoid_inline_code)
             IN  SplitFromEveryGap(content, end, avoid_inline_code,
                    parts \o <<[code |-> FALSE,
                                text |-> SubSeq(content, last_end, start - 1)],
                               [code |-> TRUE,
                                text |-> SubSeq(content, start, end - 1)]>>)

RECURSIVE SplitFrom(_, _, _, _)
SplitFrom(content, last_end, avoid_inline_code, parts) ==
    LET starts == {i \in last_end..Len(content) :
                       CodeEnd(content, i, avoid_inline_code) # 0}
    IN  IF starts = {}
        THEN IF last_end <= Len(content)
             THEN Append(parts, [code |-> FALSE,
                                 text |-> SubSeq(content, last_end, Len(content))])
             ELSE parts
        ELSE LET start == Min(starts)
                 end == CodeEnd(content, start, avoid_inline_code)
                 gap == IF start > last_end
                        THEN Append(parts, [code |-> FALSE,
                                            text |-> SubSeq(content, last_end, start - 1)])
                        ELSE parts
             IN  SplitFrom(content, NextLastEnd(start, end), avoid_inline_code,
                           Append(gap, [code |-> TRUE,
                                        text |-> SubSeq(content, start, end - 1)]))

SplitParts(content, avoid_inline_code) ==
    SplitFrom(content, 1, avoid_inline_code, <<>>)

(***************************************************************************)
(* process_non_code of remove_first_level_titles:                          *)
(*   re.compile(r'\n^#\s+.+\n', re.MULTILINE).sub('', text)                *)
(***************************************************************************)
\* the length of the run of \s characters that starts at p
SpaceRun(s, p) ==
    LET others == {j \in p..Len(s) : ~IsSpace(s[j])}
    IN  (IF others = {} THEN Len(s) + 1 ELSE Min(others)) - p

\* .+\n at p: at least one character other than a newline, up to the end of
\* the line, and the newline that ends it; the end of the match, 0 if none
LineRestEnd(s, p) ==
    IF p <= Len(s) /\ s[p] # "\n"
    THEN LET nl == FindChar(s, {"\n"}, p)
         IN  IF nl = 0 THEN 0 ELSE nl + 1
    ELSE 0

\* \n^#\s+.+\n at i: \s+ is greedy and gives characters back until .+\n matches
TitleEnd(s, i) ==
    IF StartsWithAt(s, i, <<"\n", "#">>)
    THEN LET ks == {k \in 1..SpaceRun(s, i + 2) : LineRestEnd(s, i + 2 + k) # 0}
         IN  IF ks = {} THEN 0 ELSE LineRestEnd(s, i + 2 + Max(ks))
    ELSE 0

\* sub('', text): the matches, leftmost first and not overlapping, are deleted
RECURSIVE RemoveTitlesFrom(_, _, _)
RemoveTitlesFrom(text, pos, acc) ==
    LET starts == {i \in pos..Len(text) : TitleEnd(text, i) # 0}
    IN  IF starts = {} THEN acc \o SubSeq(text, pos, Len(text))
        ELSE LET start == Min(starts)
             IN  RemoveTitlesFrom(text, TitleEnd(text, start),
                                  acc \o SubSeq(text, pos, start - 1))

process_non_code_titles(text) == RemoveTitlesFrom(text, 1, <<>>)

(***************************************************************************)
(* process_non_code of remove_img_path_in_md, with img_dir = "img/":       *)
(*   re.sub(r'\[(.*?)\]\((img/)?([^)]+)\)', '[\1](\3)', text)              *)
(*   re.sub(r'<img\s+src=["\']img/([^"\']+)["\']', '<img src="\1"', text)  *)
(***************************************************************************)
img_dir == <<"i", "m", "g", "/">>

NoMatch == [end |-> 0]

\* ([^)]+)\) at q: at least one character, up to the first ")"
PathMatch(s, q) ==
    LET r == FindChar(s, {")"}, q)
    IN  IF r > q THEN [end |-> r + 1, path |-> SubSeq(s, q, r - 1)] ELSE NoMatch

\* (img/)?([^)]+)\) at q: the prefix is taken when the rest then matches,
\* and left to group 3 otherwise
TargetMatch(s, q) ==
    IF StartsWithAt(s, q, img_dir) /\ PathMatch(s, q + Len(img_dir)).end # 0
    THEN PathMatch(s, q + Len(img_dir))
    ELSE PathMatch(s, q)

\* \[(.*?)\]\((img/)?([^)]+)\) at i: the lazy label, which holds no newline,
\* ends at the first "](" after which the target matches
ImgInsertMatch(s, i) ==
    IF StartsWithAt(s, i, <<"[">>)
    THEN LET nl == FindChar(s, {"\n"}, i + 1)
             limit == IF nl = 0 THEN Len(s) ELSE nl
             js == {j \in (i + 1)..limit :
                       /\ StartsWithAt(s, j, <<"]", "(">>)
                       /\ TargetMatch(s, j + 2).end # 0}
         IN  IF js = {} THEN NoMatch
             ELSE LET j == Min(js)
                      t == TargetMatch(s, j + 2)
                  IN  [end |-> t.end,
                       new |-> <<"[">> \o SubSeq(s, i + 1, j - 1) \o <<"]", "(">>
                                 \o t.path \o <<")">>]
    ELSE NoMatch

Quotes == {"\"", "'"}

\* <img\s+src=["']img/([^"']+)["'] at i
HtmlImgMatch(s, i) ==
    LET tag == <<"<", "i", "m", "g">>
        src == <<"s", "r", "c", "=">>
        p == i + Len(tag) + SpaceRun(s, i + Len(tag))
        q == p + Len(src) + 1
        r == FindChar(s, Quotes, q + Len(img_dir))
    IN  IF /\ StartsWithAt(s, i, tag)
           /\ SpaceRun(s, i + Len(tag)) >= 1
           /\ StartsWithAt(s, p, src)
           /\ q - 1 <= Len(s) /\ s[q - 1] \in Quotes
           /\ StartsWithAt(s, q, img_dir)
           /\ r > q + Len(img_dir)
        THEN [end |-> r + 1,
              new |-> tag \o <<" ">> \o src \o <<"\"">>
                        \o SubSeq(s, q + Len(img_dir), r - 1) \o <<"\"">>]
        ELSE NoMatch

\* re.sub(img_insert_pattern, replace_img_path, text)
RECURSIVE SubImgInsertFrom(_, _, _)
SubImgInsertFrom(text, pos, acc) ==
    LET starts == {i \in pos..Len(text) : ImgInsertMatch(text, i).end # 0}
    IN  IF starts = {} THEN acc \o SubSeq(text, pos, Len(text))
        ELSE LET start == Min(starts)
                 m == ImgInsertMatch(text, start)
             IN  SubImgInsertFrom(text, m.end,
                                  acc \o SubSeq(text, pos, start - 1) \o m.new)

\* re.sub(html_img_tag_pattern, replace_html_img_src, text)
RECURSIVE SubHtmlImgFrom(_, _, _)
SubHtmlImgFrom(text, pos, acc) ==
    LET starts == {i \in pos..Len(text) : HtmlImgMatch(text, i).end # 0}
    IN  IF starts = {} THEN acc \o SubSeq(text, pos, Len(text))
        ELSE LET start == Min(starts)
                 m == HtmlImgMatch(text, start)
             IN  SubHtmlImgFrom(text, m.end,
                                acc \o SubSeq(text, pos, start - 1) \o m.new)

process_non_code_img(text) ==
    SubHtmlImgFrom(SubImgInsertFrom(text, 1, <<>>), 1, <<>>)

(***************************************************************************)
(* avoid_process_code_blocks and the transforms built on it.  The          *)
(* process_func argument is the name of the function passed.               *)
(***************************************************************************)
process_func_call(process_func, text) ==
    CASE process_func = "identity" -> text
      [] process_func = "remove_first_level_titles" -> process_non_code_titles(text)
      [] process_func = "remove_img_path_in_md" -> process_non_code_img(text)

avoid_process_code_blocks(content, process_func, avoid_inline_code) ==
    LET parts == SplitParts(content, avoid_inline_code)
    IN  Join([i \in 1..Len(parts) |->
                 IF parts[i].code THEN parts[i].text
                 ELSE process_func_call(process_func, parts[i].text)])

\* how many times avoid_process_code_blocks calls process_func
ProcessCalls(content, avoid_inline_code) ==
    Len(SelectSeq(SplitParts(content, avoid_inline_code), LAMBDA part : ~part.code))

\* the call with avoid_inline_code left false
remove_img_path_in_md_fences_only(content) ==
    avoid_process_code_blocks(content, "remove_img_path_in_md", FALSE)

remove_img_path_in_md(content) ==
    avoid_process_code_blocks(content, "remove_img_path_in_md", TRUE)

\* the pattern run on the whole content, code blocks included
remove_first_level_titles_everywhere(content) == process_non_code_titles(content)

remove_first_level_titles(content) ==
    avoid_process_code_blocks(content, "remove_first_level_titles", FALSE)

(***************************************************************************)
(* replace_url_to_card:                                                    *)
(*   re.compile(r'<!--\s([^>]+?)\s-->\n\[(.*?)\]\((.*?)\)', re.DOTALL)     *)
(*     .sub(replace_with_card, content)                                    *)
(***************************************************************************)
\* The two characters of the first key of icon_url_mapping (U+77E5, U+4E4E),
\* which a TLA+ string cannot hold.
ZhihuKey == <<"<U+77E5>", "<U+4E4E>">>

ZhihuIcon ==
    <<"h", "t", "t", "p", "s", ":", "/", "/", "p", "i", "c", "1", ".", "z",
    "h", "i", "m", "g", ".", "c", "o", "m", "/", "v", "2", "-", "4", "c",
    "d", "8", "3", "a", "e", "3", "d", "6", "c", "a", "7", "6", "d", "a",
    "b", "e", "c", "f", "0", "0", "1", "2", "4", "4", "a", "6", "2", "3",
    "1", "0", ".", "j", "p", "g", "?", "s", "o", "u", "r", "c", "e", "=",
    "5", "7", "b", "b", "e", "a", "c", "9">>

GithubIcon ==
    <<"h", "t", "t", "p", "s", ":", "/", "/", "g", "i", "t", "h", "u", "b",
    ".", "g", "i", "t", "h", "u", "b", "a", "s", "s", "e", "t", "s", ".",
    "c", "o", "m", "/", "a", "s", "s", "e", "t", "s", "/", "a", "p", "p",
    "l", "e", "-", "t", "o", "u", "c", "h", "-", "i", "c", "o", "n", "-",
    "1", "4", "4", "x", "1", "4", "4", "-", "b", "8", "8", "2", "e", "3",
    "5", "4", "c", "0", "0", "5", ".", "p", "n", "g">>

\* str.strip()
Strip(s) ==
    LET inner == {k \in 1..Len(s) : ~IsSpace(s[k])}
    IN  IF inner = {} THEN <<>> ELSE SubSeq(s, Min(inner), Max(inner))

\* the icon of replace_with_card: icon_url_mapping[icon_url.lower()] when the
\* lowered icon text is one of the keys, the icon text otherwise
ResolveIcon(icon_url) ==
    CASE Lower(icon_url) = ZhihuKey -> ZhihuIcon
      [] Lower(icon_url) = <<"z", "h", "i", "h", "u">> -> ZhihuIcon
      [] Lower(icon_url) = <<"g", "i", "t", "h", "u", "b">> -> GithubIcon
      [] OTHER -> icon_url

\* \[(.*?)\]\((.*?)\) at b, b being the position after "[": both groups are
\* lazy and match newlines too
CardLinkMatch(s, b) ==
    LET js == {j \in b..Len(s) :
                  StartsWithAt(s, j, <<"]", "(">>) /\ FindChar(s, {")"}, j + 2) # 0}
    IN  IF js = {} THEN NoMatch
        ELSE LET j == Min(js)
                 r == FindChar(s, {")"}, j + 2)
             IN  [end |-> r + 1,
                  link_title |-> SubSeq(s, b, j - 1),
                  url |-> SubSeq(s, j + 2, r - 1)]

\* the whole pattern at i
CardMatch(s, i) ==
    LET a == i + 5
        es == {e \in (a + 1)..Len(s) :
                  /\ \A k \in a..(e - 1) : s[k] # ">"
                  /\ IsSpace(s[e])
                  /\ StartsWithAt(s, e + 1, <<"-", "-", ">", "\n", "[">>)
                  /\ CardLinkMatch(s, e + 6).end # 0}
    IN  IF /\ StartsWithAt(s, i, <<"<", "!", "-", "-">>)
           /\ i + 4 <= Len(s) /\ IsSpace(s[i + 4])
           /\ es # {}
        THEN LET e == Min(es)
                 m == CardLinkMatch(s, e + 6)
             IN  [end |-> m.end,
                  new |-> <<"{", "%", " ", "e", "x", "t", "e", "r", "n",
                            "a", "l", "L", "i", "n", "k", "C", "a", "r",
                            "d">>
                            \o <<" ", "\"">> \o Strip(m.link_title)
                            \o <<"\"", " ", "\"">> \o Strip(m.url)
                            \o <<"\"", " ", "\"">> \o ResolveIcon(Strip(SubSeq(s, a, e - 1)))
                            \o <<"\"", " ", "%", "}">>]
        ELSE NoMatch

RECURSIVE SubCardFrom(_, _, _)
SubCardFrom(content, pos, acc) ==
    LET starts == {i \in pos..Len(content) : CardMatch(content, i).end # 0}
    IN  IF starts = {} THEN acc \o SubSeq(content, pos, Len(content))
        ELSE LET start == Min(starts)
                 m == CardMatch(content, start)
             IN  SubCardFrom(content, m.end,
                             acc \o SubSeq(content, pos, start - 1) \o m.new)

replace_url_to_card(content) == SubCardFrom(content, 1, <<>>)

(***************************************************************************)
(* change_front_matter, on the text of the file it opens.                  *)
(***************************************************************************)
\* f.readlines(): the lines of text, each with the newline that ends it
RECURSIVE ReadLinesFrom(_, _, _)
ReadLinesFrom(text, pos, lines) ==
    IF pos > Len(text) THEN lines
    ELSE LET nl == FindChar(text, {"\n"}, pos)
             end == IF nl = 0 THEN Len(text) ELSE nl
         IN  ReadLinesFrom(text, end + 1, Append(lines, SubSeq(text, pos, end)))

readlines(text) == ReadLinesFrom(text, 1, <<>>)

Delimiter == <<"-", "-", "-", "\n">>

\* lines.index('---\n', 1) if '---\n' in lines[1:] else None, counted from 1;
\* 0 stands for None
FrontMatterEndIndex(lines) ==
    LET found == {k \in 2..Len(lines) : lines[k] = Delimiter}
    IN  IF found = {} THEN 0 ELSE Min(found)

IsDigit(c) == c \in {"0", "1", "2", "3", "4", "5", "6", "7", "8", "9"}

\* \d{4}-\d{2}-\d{2} at p
IsDateAt(s, p) ==
    /\ p + 9 <= Len(s)
    /\ \A k \in {0, 1, 2, 3, 5, 6, 8, 9} : IsDigit(s[p + k])
    /\ s[p + 4] = "-" /\ s[p + 7] = "-"

\* date:\s*(\d{4}-\d{2}-\d{2}) at i: the position of group 1, 0 if no match
DateGroupAt(s, i) ==
    LET key == <<"d", "a", "t", "e", ":">>
        p == i + Len(key) + SpaceRun(s, i + Len(key))
    IN  IF StartsWithAt(s, i, key) /\ IsDateAt(s, p) THEN p ELSE 0

\* re.search(r'date:\s*(\d{4}-\d{2}-\d{2})', front_matter).group(1), <<>> for
\* no match
DateSearch(front_matter) ==
    LET starts == {i \in 1..Len(front_matter) : DateGroupAt(front_matter, i) # 0}
    IN  IF starts = {} THEN <<>>
        ELSE LET p == DateGroupAt(front_matter, Min(starts))
             IN  SubSeq(front_matter, p, p + 9)

DigitValue(c) ==
    CASE c = "0" -> 0 [] c = "1" -> 1 [] c = "2" -> 2 [] c = "3" -> 3 [] c = "4" -> 4
      [] c = "5" -> 5 [] c = "6" -> 6 [] c = "7" -> 7 [] c = "8" -> 8 [] c = "9" -> 9

\* whether datetime.strptime(date_str, '%Y-%m-%d') accepts the date
IsValidDate(date_str) ==
    LET y == 1000 * DigitValue(date_str[1]) + 100 * DigitValue(date_str[2])
               + 10 * DigitValue(date_str[3]) + DigitValue(date_str[4])
        m == 10 * DigitValue(date_str[6]) + DigitValue(date_str[7])
        d == 10 * DigitValue(date_str[9]) + DigitValue(date_str[10])
        leap == y % 4 = 0 /\ (y % 100 # 0 \/ y % 400 = 0)
        days == IF m = 2 THEN (IF leap THEN 29 ELSE 28)
                ELSE IF m \in {4, 6, 9, 11} THEN 30 ELSE 31
    IN  y >= 1 /\ m \in 1..12 /\ d >= 1 /\ d <= days

\* date_obj.strftime('%Y/%m')
YearMonth(date_str) == SubSeq(date_str, 1, 4) \o <<"/">> \o SubSeq(date_str, 6, 7)

\* key\s*.* at i, for key 'title:' or 'cover:': the end of the match (exclusive),
\* 0 if no match.  \s* runs over newlines too, and .* to the end of the line
\* it stops in.
FieldEnd(s, i, key) ==
    IF StartsWithAt(s, i, key)
    THEN LET p == i + Len(key) + SpaceRun(s, i + Len(key))
             nl == FindChar(s, {"\n"}, p)
         IN  IF nl = 0 THEN Len(s) + 1 ELSE nl
    ELSE 0

\* re.sub(key + r'\s*.*', new, front_matter)
RECURSIVE SubFieldFrom(_, _, _, _, _)
SubFieldFrom(front_matter, key, new, pos, acc) ==
    LET starts == {i \in pos..Len(front_matter) : FieldEnd(front_matter, i, key) # 0}
    IN  IF starts = {} THEN acc \o SubSeq(front_matter, pos, Len(front_matter))
        ELSE LET start == Min(starts)
             IN  SubFieldFrom(front_matter, key, new, FieldEnd(front_matter, start, key),
                              acc \o SubSeq(front_matter, pos, start - 1) \o new)

TitleKey == <<"t", "i", "t", "l", "e", ":">>
CoverKey == <<"c", "o", "v", "e", "r", ":">>
CoverFile == <<"/", "c", "o", "v", "e", "r", ".", "j", "p", "g">>

\* The file text change_front_matter leaves behind and what it raises.  The
\* title is taken to hold no backslash (re.sub reads one in its replacement
\* as an escape).
change_front_matter(text, file_name, new_title) ==
    LET lines == readlines(text)
        front_matter_end_index == FrontMatterEndIndex(lines)
        front_matter == Join(SubSeq(lines, 1, front_matter_end_index))
        rest == Join(SubSeq(lines, front_matter_end_index + 1, Len(lines)))
        date_str == DateSearch(front_matter)
        yyyy_mm == YearMonth(date_str)
        with_title == SubFieldFrom(front_matter, TitleKey,
                                   TitleKey \o <<" ">> \o new_title, 1, <<>>)
        with_cover == SubFieldFrom(with_title, CoverKey,
                                   CoverKey \o <<" ">> \o yyyy_mm \o <<"/">>
                                     \o file_name \o CoverFile, 1, <<>>)
    IN  IF front_matter_end_index = 0 THEN [text |-> text, raised |-> "ValueError"]
        ELSE IF date_str = <<>> THEN [text |-> text, raised |-> "ValueError"]
        ELSE IF ~IsValidDate(date_str) THEN [text |-> text, raised |-> "ValueError"]
        ELSE [text |-> with_cover \o rest, raised |-> NoError]

(***************************************************************************)
(* Titles the normalizer is run on: every string over TitleChars of at     *)
(* most MaxTitleLen characters, and those strings padded to the lengths    *)
(* around the two thresholds.                                              *)
(***************************************************************************)
MaxTitleLen == 3

TitleChars == {"a", "B", "-", " ", "_", "!"}

RECURSIVE StringsUpTo(_, _)
StringsUpTo(chars, n) ==
    IF n = 0 THEN {<<>>}
    ELSE LET shorter == StringsUpTo(chars, n - 1)
         IN  shorter \cup {Append(s, c) : s \in shorter, c \in chars}

ShortTitles == StringsUpTo(TitleChars, MaxTitleLen)

PadLengths == (61..65) \cup (252..256)

PaddedTitles ==
    {Rep("a", p) \o t : p \in PadLengths, t \in StringsUpTo({"B", " ", "!"}, 1)}

Titles == ShortTitles \cup PaddedTitles

normalizer_vars == <<title, filename, warnings, raised, first>>
document_vars == <<family, blocks, document, op, result, process_calls>>

site_vars == <<hexo_root, made_dirs, draft_dir, posts, scaffold, pending,
               commands, port, finalize_runs>>

vars == <<normalizer_vars, document_vars, site_vars, pc>>

NormalizerIdle ==
    /\ title = <<>>
    /\ filename = NoValue
    /\ warnings = 0
    /\ raised = NoError
    /\ first = NoValue

DocumentIdle ==
    /\ family = "none"
    /\ blocks = <<>>
    /\ document = <<>>
    /\ op = NoOp
    /\ result = <<>>
    /\ process_calls = 0

\* no blog: the transforms and the normalizer touch no file
SiteIdle ==
    /\ hexo_root = FALSE
    /\ made_dirs = FALSE
    /\ draft_dir = <<>>
    /\ posts = <<>>
    /\ scaffold = "none"
    /\ pending = <<>>
    /\ commands = <<>>
    /\ port = "unchecked"
    /\ finalize_runs = 0

InitNormalizer ==
    /\ title \in Titles
    /\ filename = NoValue
    /\ warnings = 0
    /\ raised = NoError
    /\ first = NoValue
    /\ DocumentIdle
    /\ SiteIdle
    /\ pc = "start"

\* filename = title2filename(title)
Normalize ==
    /\ pc = "start"
    /\ LET r == title2filename(title)
       IN  /\ filename' = r.filename
           /\ warnings' = r.warnings
           /\ raised' = r.raised
    /\ pc' = "named"
    /\ UNCHANGED <<title, first, document_vars, site_vars>>

\* title2filename(filename): the normalizer run on its own output
Renormalize ==
    /\ pc = "named"
    /\ raised = NoError
    /\ LET r == title2filename(filename)
       IN  /\ filename' = r.filename
           /\ warnings' = r.warnings
           /\ raised' = r.raised
    /\ first' = filename
    /\ pc' = "renamed"
    /\ UNCHANGED <<title, document_vars, site_vars>>

NextNormalizer == Normalize \/ Renormalize

SpecNormalizer == InitNormalizer /\ [][NextNormalizer]_vars

(***************************************************************************)
(* Documents the document transforms are run on.                            *)
(*   "chars": every string over DocChars of at most MaxDocLen characters;  *)
(*   "lines": at most MaxBlocks lines and fenced blocks, joined by "\n";   *)
(*   "items": at most MaxItems links, tags, code spans and text, adjoined. *)
(***************************************************************************)
MaxDocLen == 6
MaxBlocks == 4
MaxItems == 3

RECURSIVE SeqsUpTo(_, _)
SeqsUpTo(S, n) ==
    IF n = 0 THEN {<<>>}
    ELSE LET shorter == SeqsUpTo(S, n - 1)
         IN  shorter \cup {Append(q, x) : q \in shorter, x \in S}

DocChars == {"a", "\n", Backtick, "~"}

CharBlocks == {[kind |-> "char", text |-> <<c>>] : c \in DocChars}

TitleLine == <<"#", " ", "H">>
FencedLines == <<"\n", "#", " ", "C", "\n">>

LineBlocks ==
    { [kind |-> "line",  text |-> <<"x">>],
      [kind |-> "line",  text |-> <<>>],
      [kind |-> "title", text |-> TitleLine],
      [kind |-> "fence", text |-> Backticks \o FencedLines \o Backticks],
      [kind |-> "fence", text |-> Tildes \o FencedLines \o Tildes] }

PrefixedLink == <<"[", "c", "]", "(", "i", "m", "g", "/", "p", ")">>
StrippedLink == <<"[", "c", "]", "(", "p", ")">>
OtherLink == <<"[", "c", "]", "(", "o", "/", "p", ")">>
PrefixedTag == <<"<", "i", "m", "g", " ", "s", "r", "c", "=", "'",
                 "i", "m", "g", "/", "p", "'", ">">>
StrippedTag == <<"<", "i", "m", "g", " ", "s", "r", "c", "=", "\"", "p", "\"", ">">>

ItemBlocks ==
    { [kind |-> "img_link", text |-> PrefixedLink],
      [kind |-> "link",     text |-> OtherLink],
      [kind |-> "img_tag",  text |-> PrefixedTag],
      [kind |-> "code",     text |-> <<Backtick>> \o PrefixedLink \o <<Backtick>>],
      [kind |-> "code",     text |-> Backticks \o PrefixedLink \o Backticks],
      [kind |-> "code",     text |-> Tildes \o PrefixedLink \o Tildes],
      [kind |-> "card",     text |-> <<"<", "!", "-", "-", " ", "G", "i", "t",
                                  "H", "u", "b", " ", "-", "-", ">", "\n",
                                  "[", "c", "]", "(", "u", ")">>],
      [kind |-> "card",     text |-> <<"<", "!", "-", "-", " ", "i", " ", "-",
                                  "-", ">", "\n", "[", " ", "c", " ", "]",
                                  "(", "u", " ", ")">>],
      [kind |-> "text",     text |-> <<"t">>],
      [kind |-> "text",     text |-> <<"[">>],
      [kind |-> "text",     text |-> <<"\n">>] }

\* '\n'.join(texts)
RECURSIVE JoinLines(_)
JoinLines(texts) ==
    IF texts = <<>> THEN <<>>
    ELSE IF Len(texts) = 1 THEN texts[1]
    ELSE texts[1] \o <<"\n">> \o JoinLines(Tail(texts))

Texts(bs) == [i \in 1..Len(bs) |-> bs[i].text]

DocumentText(fam, bs) ==
    IF fam = "lines" THEN JoinLines(Texts(bs)) ELSE Join(Texts(bs))

InitDocument ==
    /\ NormalizerIdle
    /\ SiteIdle
    /\ \/ family = "chars" /\ blocks \in SeqsUpTo(CharBlocks, MaxDocLen)
       \/ family = "lines" /\ blocks \in SeqsUpTo(LineBlocks, MaxBlocks)
       \/ family = "items" /\ blocks \in SeqsUpTo(ItemBlocks, MaxItems)
    /\ document = DocumentText(family, blocks)
    /\ op = NoOp
    /\ result = <<>>
    /\ process_calls = 0
    /\ pc = "start"

\* avoid_process_code_blocks(document, lambda text: text, avoid_inline_code)
RewriteIdentity(avoid_inline_code) ==
    /\ pc = "start"
    /\ result' = avoid_process_code_blocks(document, "identity", avoid_inline_code)
    /\ process_calls' = ProcessCalls(document, avoid_inline_code)
    /\ op' = IF avoid_inline_code THEN "identity_inline" ELSE "identity_fences"
    /\ pc' = "done"
    /\ UNCHANGED <<normalizer_vars, family, blocks, document, site_vars>>

\* remove_first_level_titles(document)
RemoveFirstLevelTitles ==
    /\ pc = "start"
    /\ result' = remove_first_level_titles(document)
    /\ process_calls' = ProcessCalls(document, FALSE)
    /\ op' = "remove_first_level_titles"
    /\ pc' = "done"
    /\ UNCHANGED <<normalizer_vars, family, blocks, document, site_vars>>

\* remove_img_path_in_md(document)
RemoveImgPathInMd ==
    /\ pc = "start"
    /\ result' = remove_img_path_in_md(document)
    /\ process_calls' = ProcessCalls(document, TRUE)
    /\ op' = "remove_img_path_in_md"
    /\ pc' = "done"
    /\ UNCHANGED <<normalizer_vars, family, blocks, document, site_vars>>

\* replace_url_to_card(content)
ReplaceUrlToCard ==
    /\ pc = "start"
    /\ result' = replace_url_to_card(document)
    /\ process_calls' = 0
    /\ op' = "replace_url_to_card"
    /\ pc' = "done"
    /\ UNCHANGED <<normalizer_vars, family, blocks, document, site_vars>>

NextDocument ==
    \/ \E avoid_inline_code \in BOOLEAN : RewriteIdentity(avoid_inline_code)
    \/ RemoveFirstLevelTitles
    \/ RemoveImgPathInMd
    \/ ReplaceUrlToCard

SpecDocument == InitDocument /\ [][NextDocument]_vars

(***************************************************************************)
(* C3: avoid_process_code_blocks with the identity transform returns the   *)
(* document unchanged, for both values of avoid_inline_code: the code and  *)
(* prose parts partition it in order.                                      *)
(***************************************************************************)
C3_IdentityRoundTrip ==
    (pc = "done" /\ op \in {"identity_inline", "identity_fences"})
        => result = document

\* a document of mixed prose and code: two prose parts around a code span
C3_Witness ==
    /\ pc = "done" /\ op = "identity_inline"
    /\ process_calls = 2
    /\ Len(SplitParts(document, TRUE)) = 3
    /\ result = document

(***************************************************************************)
(* What the title remover is expected to return for a document built from  *)
(* lines and fenced blocks: a title line with a newline on both sides      *)
(* (neither the first nor the last block) is deleted together with both    *)
(* newlines; every other block, fenced blocks included, is copied.         *)
(***************************************************************************)
IsProseTitle(bs, i) == bs[i].kind = "title" /\ 1 < i /\ i < Len(bs)

ExpectedWithoutTitles(bs) ==
    Join([i \in 1..Len(bs) |->
            (IF IsProseTitle(bs, i) THEN <<>> ELSE bs[i].text)
            \o (IF i < Len(bs) /\ ~IsProseTitle(bs, i) /\ ~IsProseTitle(bs, i + 1)
                THEN <<"\n">> ELSE <<>>)])

HasFence(bs) == \E i \in 1..Len(bs) : bs[i].kind = "fence"

AdjacentTitles(bs) ==
    \E i \in 1..(Len(bs) - 1) : IsProseTitle(bs, i) /\ IsProseTitle(bs, i + 1)

(***************************************************************************)
(* C7: remove_first_level_titles never changes text inside a tilde or      *)
(* backtick fenced block: in a document with a title line inside a fenced  *)
(* block and title lines in prose (none directly after another), each with *)
(* a newline on both sides, only the prose title lines are deleted and     *)
(* every fenced block appears verbatim.                                    *)
(***************************************************************************)
C7_FencedTitlesKept ==
    (/\ pc = "done" /\ op = "remove_first_level_titles"
     /\ family = "lines" /\ HasFence(blocks) /\ ~AdjacentTitles(blocks))
        => result = ExpectedWithoutTitles(blocks)

\* a title line in prose was deleted next to a fenced block that holds one
C7_Witness ==
    /\ pc = "done" /\ op = "remove_first_level_titles" /\ family = "lines"
    /\ HasFence(blocks) /\ ~AdjacentTitles(blocks)
    /\ \E i \in 1..Len(blocks) : IsProseTitle(blocks, i)
    /\ result = ExpectedWithoutTitles(blocks)
    /\ Find(result, TitleLine, 1) = 0
    /\ Find(result, FencedLines, 1) # 0
    /\ result # document

(***************************************************************************)
(* C8: remove_img_path_in_md rewrites every link [label](img/rest) in      *)
(* prose to [label](rest), and leaves unchanged every link whose target    *)
(* does not start with img/ and every link inside a fenced or inline code  *)
(* span; a document with no prefixed link or tag in prose comes back       *)
(* unchanged.                                                              *)
(***************************************************************************)
ExpectedWithoutImgDir(bs) ==
    Join([i \in 1..Len(bs) |->
            CASE bs[i].kind = "img_link" -> StrippedLink
              [] bs[i].kind = "img_tag" -> StrippedTag
              [] OTHER -> bs[i].text])

C8_ImgDirStripped ==
    (pc = "done" /\ op = "remove_img_path_in_md" /\ family = "items")
        => /\ result = ExpectedWithoutImgDir(blocks)
           /\ (\A i \in 1..Len(blocks) : blocks[i].kind \notin {"img_link", "img_tag"})
                 => result = document

\* a prefixed link in prose was rewritten while one in a code span was kept
C8_Witness ==
    /\ pc = "done" /\ op = "remove_img_path_in_md" /\ family = "items"
    /\ \E i, j, k \in 1..Len(blocks) :
          /\ blocks[i].kind = "img_link"
          /\ blocks[j].kind = "code"
          /\ blocks[k].kind = "link"
    /\ result = ExpectedWithoutImgDir(blocks)
    /\ result # document

(***************************************************************************)
(* C10: remove_first_level_titles removes every first-level title line in  *)
(* prose that has a newline on both sides, however many there are and also *)
(* when two of them are directly adjacent: none is left in the output.     *)
(***************************************************************************)
C10_AllTitlesRemoved ==
    (/\ pc = "done" /\ op = "remove_first_level_titles" /\ family = "lines"
     /\ Len(blocks) >= 1
     /\ blocks[1].kind # "title" /\ blocks[Len(blocks)].kind # "title")
        => Find(result, TitleLine, 1) = 0

(***************************************************************************)
(* Files change_front_matter is run on: an opening delimiter, at most      *)
(* MaxFrontLines lines of FrontLines, the closing delimiter and a body.    *)
(***************************************************************************)
MaxFrontLines == 3

FrontLines ==
    { [kind |-> "title", text |-> <<"t", "i", "t", "l", "e", ":", " ", "x", "\n">>],
      [kind |-> "title", text |-> <<"t", "i", "t", "l", "e", ":", "\n">>],
      [kind |-> "cover", text |-> <<"c", "o", "v", "e", "r", ":", " ", "c", "\n">>],
      [kind |-> "cover", text |-> <<"c", "o", "v", "e", "r", ":", "\n">>],
      [kind |-> "other", text |-> <<"s", "u", "b", "t", "i", "t", "l", "e", ":", " ", "x", "\n">>],
      [kind |-> "other", text |-> <<"t", "a", "g", "s", ":", " ", "x", "\n">>],
      [kind |-> "other",
       text |-> <<"d", "a", "t", "e", ":", " ", "2", "0", "2", "4", "-",
                "0", "1", "-", "0", "2", "\n">>] }

Bodies == {<<>>, <<"t", "i", "t", "l", "e", ":", " ", "b", "\n">>}

InitFrontMatter ==
    /\ title = <<"T">>
    /\ filename = <<"a">>
    /\ warnings = 0
    /\ raised = NoError
    /\ first = NoValue
    /\ SiteIdle
    /\ family = "front_matter"
    /\ blocks \in SeqsUpTo(FrontLines, MaxFrontLines)
    /\ \E body \in Bodies :
          document = Delimiter \o Join(Texts(blocks)) \o Delimiter \o body
    /\ op = NoOp
    /\ result = <<>>
    /\ process_calls = 0
    /\ pc = "start"

\* change_front_matter(target_dir, filename, title), on a file holding document
ChangeFrontMatter ==
    /\ pc = "start"
    /\ LET r == change_front_matter(document, filename, title)
       IN  /\ result' = r.text
           /\ raised' = r.raised
    /\ op' = "change_front_matter"
    /\ pc' = "done"
    /\ UNCHANGED <<title, filename, warnings, first, family, blocks, document,
                   process_calls, site_vars>>

NextFrontMatter == ChangeFrontMatter

SpecFrontMatter == InitFrontMatter /\ [][NextFrontMatter]_vars

(***************************************************************************)
(* C6: change_front_matter changes only the values of the title: and       *)
(* cover: lines: the file has as many lines after the call as before, a    *)
(* title: or cover: line still starts with its key, and every other line,  *)
(* of the front-matter and of the body, is the same as before.             *)
(***************************************************************************)
C6_OnlyTitleAndCoverChanged ==
    (pc = "done" /\ op = "change_front_matter" /\ raised = NoError)
        => LET before == readlines(document)
               after == readlines(result)
           IN  /\ Len(after) = Len(before)
               /\ \A k \in 1..Len(before) :
                     IF StartsWithAt(before[k], 1, TitleKey)
                     THEN StartsWithAt(after[k], 1, TitleKey)
                     ELSE IF StartsWithAt(before[k], 1, CoverKey)
                     THEN StartsWithAt(after[k], 1, CoverKey)
                     ELSE after[k] = before[k]

(***************************************************************************)
(* C1: title2filename is idempotent: normalizing an already normalized     *)
(* name returns it unchanged, also when deleted special characters sat     *)
(* between hyphens, spaces or underscores.                                 *)
(***************************************************************************)
C1_Idempotent == pc = "renamed" => filename = first

(***************************************************************************)
(* C2: with n the length of the normalized name: n <= 64 returns it with   *)
(* no warning; 64 < n <= 255 returns it with exactly one warning; n > 255  *)
(* raises the length error and returns nothing.                            *)
(***************************************************************************)
C2_LengthThresholds ==
    pc = "named" =>
        LET n == Len(CleanTitle(title))
        IN  /\ n <= 64 =>
                filename = CleanTitle(title) /\ warnings = 0 /\ raised = NoError
            /\ (64 < n /\ n <= 255) =>
                filename = CleanTitle(title) /\ warnings = 1 /\ raised = NoError
            /\ n > 255 =>
                filename = NoValue /\ warnings = 0 /\ raised = "ValueError"

\* a name of exactly 255 characters is returned, with one warning
C2_Witness ==
    pc = "named" /\ Len(filename) = 255 /\ warnings = 1 /\ raised = NoError

(***************************************************************************)
(* The blog on disk.  A name is a normalized file name.  _draft holds      *)
(* under a name nothing, a plain file, or a directory with <name>.md and   *)
(* img/ in it; source/_posts holds <name>.md and the directory <name>/.    *)
(* A file is its text, a directory of images the set of their names.       *)
(***************************************************************************)
NoFile == <<"<no file>">>
NoDir == {"<no directory>"}

Names == {<<"a">>, <<"b">>}

\* the files of a directory that may not exist
Files(d) == IF d = NoDir THEN {} ELSE d

NoEntry == [kind |-> "absent", md |-> NoFile, img |-> NoDir]
StrayFile == [kind |-> "file", md |-> NoFile, img |-> NoDir]
BareDir == [kind |-> "dir", md |-> NoFile, img |-> NoDir]
NoPost == [md |-> NoFile, dir |-> NoDir]

\* what the site's scaffold makes of "hexo new post": a complete
\* front-matter, one without a date, one never closed, or no file at all
Scaffolds == {"post", "no_date", "unclosed", "fails"}

TitleLine1(name) == TitleKey \o <<" ">> \o name \o <<"\n">>

DateLine ==
    <<"d", "a", "t", "e", ":", " ", "2", "0", "2", "4", "-", "0", "1", "-",
      "0", "2", "\n">>

ScaffoldText(kind, name) ==
    CASE kind = "post" -> Delimiter \o TitleLine1(name) \o DateLine \o Delimiter
      [] kind = "no_date" -> Delimiter \o TitleLine1(name) \o Delimiter
      [] kind = "unclosed" -> Delimiter \o TitleLine1(name) \o DateLine
      [] OTHER -> NoFile

\* for cmd in cmds: os.system(f'hexo {cmd}'), after the commands issued
exec_hexo_cmds(issued, cmds) ==
    issued \o [i \in 1..Len(cmds) |->
                 [shell |-> "hexo", cmd |-> cmds[i].cmd, arg |-> cmds[i].arg]]

HexoCmd(c) == [cmd |-> c, arg |-> <<>>]

\* source/_posts after "hexo new post <name>": the generator writes
\* <name>.md from the scaffold unless a file of that name is there (it then
\* picks another name), and <name>/ when the site has post_asset_folder set
HexoNewPost(source_posts, name, asset_folder) ==
    IF scaffold = "fails" THEN source_posts
    ELSE [source_posts EXCEPT
            ![name].md = IF @ = NoFile THEN ScaffoldText(scaffold, name) ELSE @,
            ![name].dir = IF asset_folder THEN Files(@) ELSE @]

\* source_posts_dir.exists(), then the three mkdir(exist_ok=True)
check_get_make_dirs ==
    IF hexo_root THEN [raised |-> NoError, made_dirs |-> TRUE]
    ELSE [raised |-> "FileNotFoundError", made_dirs |-> made_dirs]

\* a new_draft that skips the check of step 3
TargetDirNeverExists(name) == FALSE

\* target_dir.exists()
TargetDirExists(name) == draft_dir[name].kind # "absent"

\* a new_draft that reads the front-matter of the generated file where the
\* generator left it, and moves the file only when it is well formed
new_draft_checked_first(t, asset_folder) ==
    LET dirs == check_get_make_dirs
        named == title2filename(t)
        name == named.filename
        early == [made_dirs |-> dirs.made_dirs, draft_dir |-> draft_dir,
                  posts |-> posts, commands |-> commands,
                  filename |-> named.filename, warnings |-> named.warnings,
                  raised |-> NoError]
        issued == exec_hexo_cmds(commands, <<[cmd |-> "new post", arg |-> name]>>)
        generated == HexoNewPost(posts, name, asset_folder)
        post_md == generated[name].md
        late == [early EXCEPT !.commands = issued, !.posts = generated]
        changed == change_front_matter(post_md, name, t)
    IN  IF dirs.raised # NoError
        THEN [early EXCEPT !.filename = NoValue, !.warnings = 0,
                           !.raised = dirs.raised]
        ELSE IF named.raised # NoError THEN [early EXCEPT !.raised = named.raised]
        ELSE IF TargetDirExists(name) THEN [early EXCEPT !.raised = "FileExistsError"]
        ELSE IF post_md = NoFile THEN [late EXCEPT !.raised = "FileNotFoundError"]
        ELSE IF changed.raised # NoError THEN [late EXCEPT !.raised = changed.raised]
        ELSE [late EXCEPT
                !.draft_dir = [draft_dir EXCEPT ![name] =
                                 [kind |-> "dir", md |-> changed.text, img |-> @.img]],
                !.posts = [generated EXCEPT ![name] = NoPost]]

\* new_draft(t), run on the disk of the current state: the disk it leaves,
\* the commands issued and what it raises
new_draft(t, asset_folder) ==
    LET dirs == check_get_make_dirs
        named == title2filename(t)
        name == named.filename
        early == [made_dirs |-> dirs.made_dirs, draft_dir |-> draft_dir,
                  posts |-> posts, commands |-> commands,
                  filename |-> named.filename, warnings |-> named.warnings,
                  raised |-> NoError]
        issued == exec_hexo_cmds(commands, <<[cmd |-> "new post", arg |-> name]>>)
        generated == HexoNewPost(posts, name, asset_folder)
        post_md == generated[name].md
        late == [early EXCEPT !.commands = issued, !.posts = generated]
        \* steps 5 and 6: mkdir, move, rmtree of source/_posts/<name>
        moved == [late EXCEPT
                    !.draft_dir = [draft_dir EXCEPT ![name] =
                                     [kind |-> "dir", md |-> post_md, img |-> @.img]],
                    !.posts = [generated EXCEPT ![name] = NoPost]]
        changed == change_front_matter(post_md, name, t)
    IN  IF dirs.raised # NoError
        THEN [early EXCEPT !.filename = NoValue, !.warnings = 0,
                           !.raised = dirs.raised]
        ELSE IF named.raised # NoError THEN [early EXCEPT !.raised = named.raised]
        ELSE IF TargetDirExists(name) THEN [early EXCEPT !.raised = "FileExistsError"]
        ELSE IF post_md = NoFile THEN [late EXCEPT !.raised = "FileNotFoundError"]
        ELSE IF draft_dir[name].kind = "file"
        THEN [late EXCEPT !.raised = "FileExistsError"]
        ELSE [moved EXCEPT !.draft_dir[name].md = changed.text,
                           !.raised = changed.raised]

\* article_dir.is_dir() and article_md.exists()
IsArticle(entry) == entry.kind = "dir" /\ entry.md # NoFile

\* an image directory that is not removed before the images are copied
img_dest_dir_kept(old, img_src_dir) == Files(old) \cup Files(img_src_dir)

\* source/_posts/<name>/ after rmtree, mkdir and the copy of every image
img_dest_dir(old, img_src_dir) == Files(img_src_dir)

\* the body of the loop of finalize_all_drafts
finalize_article(entry, post) ==
    [md |-> replace_url_to_card(
              remove_first_level_titles(remove_img_path_in_md(entry.md))),
     dir |-> img_dest_dir(post.dir, entry.img)]

\* finalize_all_drafts(), run on the disk of the current state
finalize_all_drafts ==
    LET dirs == check_get_make_dirs
    IN  IF dirs.raised # NoError
        THEN [made_dirs |-> dirs.made_dirs, posts |-> posts, raised |-> dirs.raised]
        ELSE [made_dirs |-> dirs.made_dirs,
              posts |-> [n \in Names |->
                           IF IsArticle(draft_dir[n])
                           THEN finalize_article(draft_dir[n], posts[n])
                           ELSE posts[n]],
              raised |-> NoError]

\* exec_hexo_cmds(['clean', 'g'])
refresh_hexo(issued) == exec_hexo_cmds(issued, <<HexoCmd("clean"), HexoCmd("g")>>)

\* os.system('start http://localhost:4000')
preview_hexo(issued) ==
    Append(issued, [shell |-> "start", cmd |-> "http://localhost:4000", arg |-> <<>>])

\* a start_hexo_server that does not look at the port
start_hexo_server_unchecked(issued, connect_ex) ==
    [commands |-> exec_hexo_cmds(issued, <<HexoCmd("s")>>), raised |-> NoError]

\* connect_ex is what the connect to localhost:4000 found
start_hexo_server(issued, connect_ex) ==
    IF connect_ex = "in_use"
    THEN [commands |-> issued, raised |-> "RuntimeError"]
    ELSE [commands |-> exec_hexo_cmds(issued, <<HexoCmd("s")>>), raised |-> NoError]

\* exec_hexo_cmds('d')
deploy_hexo(issued) == exec_hexo_cmds(issued, <<HexoCmd("d")>>)

(***************************************************************************)
(* The script run from the command line, one run after the other, on a     *)
(* blog the user edits between the runs.                                   *)
(***************************************************************************)
MaxFinalizeRuns == 2

\* a title too long for a file name
LongTitle == Rep("a", MaxLength + 1)

\* the title lists given to -n; "a" and "A" normalize to the same name
NewArgs ==
    { << <<"a">> >>, << <<"A">> >>, << <<"b">> >>, << LongTitle >>,
      << <<"a">>, <<"A">> >>, << <<"a">>, <<"b">> >>, << <<"b">>, <<"a">> >> }

\* what the user writes under the front-matter of a draft
Body ==
    <<"\n", "#", " ", "H", "\n", "!", "[", "i", "]", "(", "i", "m", "g", "/",
      "p", ")", "\n">>

EndsWith(s, lit) ==
    Len(s) >= Len(lit) /\ SubSeq(s, Len(s) - Len(lit) + 1, Len(s)) = lit

static_vars ==
    <<first, family, blocks, document, result, process_calls, hexo_root, scaffold>>
call_vars == <<title, filename, warnings>>
disk_vars == <<made_dirs, draft_dir, posts, finalize_runs>>

Init ==
    /\ NormalizerIdle
    /\ DocumentIdle
    /\ hexo_root \in BOOLEAN
    /\ made_dirs = FALSE
    /\ draft_dir = [n \in Names |-> NoEntry]
    /\ posts = [n \in Names |-> NoPost]
    /\ scaffold \in Scaffolds
    /\ pending = <<>>
    /\ commands = <<>>
    /\ port = "unchecked"
    /\ finalize_runs = 0
    /\ pc = "idle"

\* python post-guide.py with no flag: parser.print_help()
PrintHelp ==
    /\ pc = "idle"
    /\ op' = "help"
    /\ pc' = "exited"
    /\ UNCHANGED <<call_vars, raised, static_vars, disk_vars, pending, commands, port>>

\* -n titles: new_drafts(args.new) enters its loop
NewDrafts(titles) ==
    /\ pc = "idle"
    /\ op' = "n"
    /\ pending' = titles
    /\ pc' = "new_drafts"
    /\ UNCHANGED <<call_vars, raised, static_vars, disk_vars, commands, port>>

\* one turn of the loop of new_drafts: new_draft(title); what it raises
\* ends the run
NewDraft ==
    /\ pc = "new_drafts"
    /\ pending # <<>>
    /\ \E asset_folder \in BOOLEAN :
       \E r \in {new_draft(Head(pending), asset_folder)} :
          LET go_on == r.raised = NoError /\ Tail(pending) # <<>>
          IN  /\ title' = Head(pending)
              /\ filename' = r.filename
              /\ warnings' = r.warnings
              /\ raised' = r.raised
              /\ made_dirs' = r.made_dirs
              /\ draft_dir' = r.draft_dir
              /\ posts' = r.posts
              /\ commands' = r.commands
              /\ finalize_runs' =
                    IF r.draft_dir = draft_dir /\ r.posts = posts
                    THEN finalize_runs ELSE 0
              /\ pending' = IF go_on THEN Tail(pending) ELSE <<>>
              /\ pc' = IF go_on THEN "new_drafts" ELSE "exited"
    /\ UNCHANGED <<op, static_vars, port>>

\* -f: finalize_all_drafts()
FinalizeAllDrafts ==
    /\ pc = "idle"
    /\ \E r \in {finalize_all_drafts} :
           /\ made_dirs' = r.made_dirs
           /\ posts' = r.posts
           /\ raised' = r.raised
           /\ finalize_runs' =
                 IF r.raised # NoError THEN finalize_runs
                 ELSE IF finalize_runs < MaxFinalizeRuns THEN finalize_runs + 1
                 ELSE finalize_runs
    /\ op' = "f"
    /\ pc' = "exited"
    /\ UNCHANGED <<call_vars, static_vars, draft_dir, pending, commands, port>>

\* -r: refresh_hexo()
RefreshHexo ==
    /\ pc = "idle"
    /\ commands' = refresh_hexo(commands)
    /\ op' = "r"
    /\ pc' = "exited"
    /\ UNCHANGED <<call_vars, raised, static_vars, disk_vars, pending, port>>

\* -p: preview_hexo()
PreviewHexo ==
    /\ pc = "idle"
    /\ commands' = preview_hexo(commands)
    /\ op' = "p"
    /\ pc' = "exited"
    /\ UNCHANGED <<call_vars, raised, static_vars, disk_vars, pending, port>>

\* -d: deploy_hexo()
DeployHexo ==
    /\ pc = "idle"
    /\ commands' = deploy_hexo(commands)
    /\ op' = "d"
    /\ pc' = "exited"
    /\ UNCHANGED <<call_vars, raised, static_vars, disk_vars, pending, port>>

\* the end of a run that calls start_hexo_server() after the commands issued
ServerRun(flag, issued) ==
    /\ pc = "idle"
    /\ \E connect_ex \in {"in_use", "free"} :
       \E r \in {start_hexo_server(issued, connect_ex)} :
              /\ port' = connect_ex
              /\ commands' = r.commands
              /\ raised' = r.raised
    /\ op' = flag
    /\ pc' = "exited"
    /\ UNCHANGED <<call_vars, static_vars, disk_vars, pending>>

\* -s: start_hexo_server()
StartHexoServer == ServerRun("s", commands)

\* -rs: refresh_hexo(); start_hexo_server()
RefreshStart == ServerRun("rs", refresh_hexo(commands))

\* -sp, -ps: preview_hexo(); start_hexo_server()
PreviewStart == \E flag \in {"sp", "ps"} : ServerRun(flag, preview_hexo(commands))

\* -rps, -rsp: refresh_hexo(); preview_hexo(); start_hexo_server()
RefreshPreviewStart ==
    \E flag \in {"rps", "rsp"} :
        ServerRun(flag, preview_hexo(refresh_hexo(commands)))

\* the process ends; nothing of the run is left but the disk
Exit ==
    /\ pc = "exited"
    /\ title' = <<>>
    /\ filename' = NoValue
    /\ warnings' = 0
    /\ raised' = NoError
    /\ op' = NoOp
    /\ pending' = <<>>
    /\ commands' = <<>>
    /\ port' = "unchecked"
    /\ pc' = "idle"
    /\ UNCHANGED <<static_vars, disk_vars>>

\* the user, between two runs, in the _draft directory the script made
UserStep(entries) ==
    /\ pc = "idle"
    /\ made_dirs
    /\ draft_dir' = entries
    /\ finalize_runs' = 0
    /\ UNCHANGED <<call_vars, raised, op, static_vars, made_dirs, posts, pending,
                   commands, port, pc>>

\* writes the body of a draft
EditDraft(n) ==
    /\ IsArticle(draft_dir[n])
    /\ ~EndsWith(draft_dir[n].md, Body)
    /\ UserStep([draft_dir EXCEPT ![n].md = @ \o Body])

\* puts the cover image into img/
AddImage(n) ==
    /\ draft_dir[n].kind = "dir"
    /\ "cover.jpg" \notin draft_dir[n].img
    /\ UserStep([draft_dir EXCEPT ![n].img = {"cover.jpg"}])

\* takes the cover image out of img/
RemoveImage(n) ==
    /\ draft_dir[n].kind = "dir"
    /\ "cover.jpg" \in draft_dir[n].img
    /\ UserStep([draft_dir EXCEPT ![n].img = {}])

\* makes an empty directory in _draft
UserMkdir(n) ==
    /\ draft_dir[n].kind = "absent"
    /\ UserStep([draft_dir EXCEPT ![n] = BareDir])

\* leaves a plain file in _draft
UserTouch(n) ==
    /\ draft_dir[n].kind = "absent"
    /\ UserStep([draft_dir EXCEPT ![n] = StrayFile])

Next ==
    \/ PrintHelp
    \/ \E titles \in NewArgs : NewDrafts(titles)
    \/ NewDraft
    \/ FinalizeAllDrafts
    \/ RefreshHexo
    \/ StartHexoServer
    \/ PreviewHexo
    \/ RefreshStart
    \/ PreviewStart
    \/ RefreshPreviewStart
    \/ DeployHexo
    \/ Exit
    \/ \E n \in Names : EditDraft(n)
    \/ \E n \in Names : AddImage(n)
    \/ \E n \in Names : RemoveImage(n)
    \/ \E n \in Names : UserMkdir(n)
    \/ \E n \in Names : UserTouch(n)

Spec == Init /\ [][Next]_vars

(***************************************************************************)
(* C4: a new_draft called with a title whose normalized name is that of a  *)
(* draft directory that exists raises FileExistsError before "hexo new     *)
(* post" is issued, and leaves _draft and source/_posts as they were.      *)
(***************************************************************************)
C4_ExistingDraftKept ==
    [][ ( /\ pc = "new_drafts"
          /\ pending # <<>>
          /\ LET name == title2filename(Head(pending)).filename
             IN  name \in Names /\ draft_dir[name].kind = "dir" )
        => ( /\ raised' = "FileExistsError"
             /\ commands' = commands
             /\ draft_dir' = draft_dir
             /\ posts' = posts
             /\ pc' = "exited" ) ]_vars

\* "A" was refused: the draft made for "a", edited and published since, is there
C4_Witness ==
    /\ pc = "exited" /\ op = "n"
    /\ title = <<"A">> /\ filename = <<"a">>
    /\ raised = "FileExistsError"
    /\ commands = <<>>
    /\ EndsWith(draft_dir[<<"a">>].md, Body)
    /\ Find(draft_dir[<<"a">>].md, TitleLine1(<<"a">>), 1) # 0
    /\ posts[<<"a">>].md # NoFile

(***************************************************************************)
(* C5: finalize_all_drafts leaves _draft as it was; after a run the        *)
(* published file of every draft that has its .md is the transformed text  *)
(* of the draft and its image directory holds the images of the draft and  *)
(* no other, whatever was published before; a run that follows a run with  *)
(* no draft changed in between leaves source/_posts as the first left it.  *)
(***************************************************************************)
Published(md) ==
    replace_url_to_card(remove_first_level_titles(remove_img_path_in_md(md)))

ServerFlags == {"s", "rs", "sp", "ps", "rps", "rsp"}

Serve == [shell |-> "hexo", cmd |-> "s", arg |-> <<>>]

BeforeServe(flag) ==
    LET clean == [shell |-> "hexo", cmd |-> "clean", arg |-> <<>>]
        g == [shell |-> "hexo", cmd |-> "g", arg |-> <<>>]
        preview == [shell |-> "start", cmd |-> "http://localhost:4000", arg |-> <<>>]
    IN  CASE flag = "s" -> <<>>
          [] flag = "rs" -> <<clean, g>>
          [] flag \in {"sp", "ps"} -> <<preview>>
          [] flag \in {"rps", "rsp"} -> <<clean, g, preview>>

C9_ServeOnlyOnFreePort ==
    (pc = "exited" /\ op \in ServerFlags)
        => /\ port \in {"in_use", "free"}
           /\ port = "in_use" =>
                 raised = "RuntimeError" /\ commands = BeforeServe(op)
           /\ port = "free" =>
                 raised = NoError /\ commands = Append(BeforeServe(op), Serve)

\* -rsp with the port taken: refresh and preview ran, the server did not
C9_Witness ==
    /\ pc = "exited" /\ op = "rsp"
    /\ port = "in_use"
    /\ raised = "RuntimeError"
    /\ Len(commands) = 3
    /\ Serve \notin {commands[i] : i \in 1..Len(commands)}

(***************************************************************************)
(* C11: avoid_process_code_blocks hands process_func every gap between     *)
(* code matches, before the first and after the last, that is not empty,   *)
(* and skips the empty ones: the transform is called once for each run of  *)
(* text outside code, and for the empty document it is not called and the  *)
(* result is the empty document.                                           *)
(***************************************************************************)
CodeAwareOps ==
    {"identity_inline", "identity_fences", "remove_first_level_titles",
     "remove_img_path_in_md"}

\* the avoid_inline_code the transform passes
InlineAvoided(o) == o \in {"identity_inline", "remove_img_path_in_md"}

\* a block the pattern matches as code: a fence, or with avoid_inline_code
\* an inline span
IsCodeBlock(b, avoid_inline_code) ==
    \/ b.kind = "fence"
    \/ b.kind = "code" /\ (avoid_inline_code \/ b.text[1] = "~" \/ b.text[2] = Backtick)

CodeBlocks(bs, avoid_inline_code) ==
    {i \in 1..Len(bs) : IsCodeBlock(bs[i], avoid_inline_code)}

\* the runs of text outside code: each run of blocks that are not code, and
\* in a document of lines the newline between two fenced blocks
TextRuns(fam, bs, avoid_inline_code) ==
    LET code == CodeBlocks(bs, avoid_inline_code)
        runs == {i \in 1..Len(bs) : i \notin code /\ (i = 1 \/ i - 1 \in code)}
        between == {i \in code : fam = "lines" /\ i + 1 \in code}
    IN  Cardinality(runs) + Cardinality(between)

StructuredDocument ==
    /\ family \in {"lines", "items"}
    /\ family = "items" => InlineAvoided(op)

C11_TransformOnNonEmptyGaps ==
    (pc = "done" /\ op \in CodeAwareOps)
        => /\ document = <<>> => process_calls = 0 /\ result = <<>>
           /\ (StructuredDocument /\ document # <<>>)
                 => process_calls = TextRuns(family, blocks, InlineAvoided(op))

\* the empty document: no call, an empty result
C11_Witness ==
    /\ pc = "done" /\ op = "identity_inline"
    /\ document = <<>>
    /\ process_calls = 0
    /\ result = <<>>

\* the claim as stated: the transform is called on every gap, so once more
\* than there are code matches, and once, on "", for the empty document
C11_TransformOnEveryGap ==
    (pc = "done" /\ op \in CodeAwareOps)
        => /\ document = <<>> => process_calls = 1 /\ result = <<>>
           /\ StructuredDocument
                 => process_calls =
                       Cardinality(CodeBlocks(blocks, InlineAvoided(op))) + 1

(***************************************************************************)
(* C12: a new_draft on a name with no entry in _draft, in a Hexo root:     *)
(* when the generated file has no closing delimiter or no date it raises   *)
(* ValueError with the draft directory made and the generated file, as     *)
(* generated, moved into it and gone from source/_posts; when the          *)
(* generator wrote no file it raises FileNotFoundError and _draft is as it *)
(* was.  A new_draft on a name whose directory such a failure left raises  *)
(* FileExistsError.                                                        *)
(***************************************************************************)
Malformed == {"no_date", "unclosed"}

\* the entry under name is what a failed new_draft left: the generated
\* file, never rewritten
LeftByFailure(name) ==
    /\ scaffold \in Malformed
    /\ draft_dir[name].kind = "dir"
    /\ draft_dir[name].md = ScaffoldText(scaffold, name)

C12_FailureLeavesDraft ==
    [][ (pc = "new_drafts" /\ pending # <<>> /\ hexo_root)
        => LET name == title2filename(Head(pending)).filename
           IN  /\ (name \in Names /\ draft_dir[name].kind = "absent"
                      /\ scaffold \in Malformed)
                     => /\ raised' = "ValueError"
                        /\ draft_dir' = [draft_dir EXCEPT ![name] =
                              [kind |-> "dir", md |-> ScaffoldText(scaffold, name),
                               img |-> NoDir]]
                        /\ posts'[name] = NoPost
                        /\ pc' = "exited"
               /\ (name \in Names /\ draft_dir[name].kind = "absent"
                      /\ scaffold = "fails")
                     => /\ raised' = "FileNotFoundError"
                        /\ draft_dir' = draft_dir
                        /\ pc' = "exited"
               /\ (name \in Names /\ LeftByFailure(name))
                     => /\ raised' = "FileExistsError"
                        /\ draft_dir' = draft_dir ]_vars

\* the second -n a on a site whose scaffold has no date: refused, the file
\* the first left is in _draft/a
C12_Witness ==
    /\ pc = "exited" /\ op = "n"
    /\ scaffold = "no_date"
    /\ title = <<"a">>
    /\ raised = "FileExistsError"
    /\ LeftByFailure(<<"a">>)
    /\ posts[<<"a">>] = NoPost

====
